---- MODULE Spec2Model ----
(***************************************************************************)
(* Neural-Illumination: the environment transition machine of AppContent   *)
(* (src/src/App.tsx), the voice-command and assistance effects of          *)
(* Experience (src/src/components/Experience.tsx) and MoodService          *)
(* (src/unnamed/part_000).                                                 *)
(***************************************************************************)
EXTENDS Integers, Sequences, FiniteSets, TLC

(* ---------------------------- bounds ----------------------------------- *)
\* most timers pending at once (setTimeout callbacks not yet fired)
MaxTimers == 2

(* ------------------------------- state --------------------------------- *)
\* AppContent
VARIABLES
  environment,      \* useState 'environment'
  isTransitioning,  \* useState 'isTransitioning'
  timers,           \* pending setTimeout callbacks, in firing order
  held,             \* the render whose handleEnvironmentChange an asynchronous holder kept
  lastOp            \* outcome of the last handler call or timer

appVars == <<environment, isTransitioning, timers, held, lastOp>>

\* Experience
VARIABLES
  mounted,            \* Experience is mounted
  voiceState,         \* 'state' of useVoiceInteraction
  transcript,         \* 'transcript' of useVoiceInteraction
  addLogId,           \* identity of the addLog prop
  prevTranscriptRef,  \* prevTranscriptRef.current
  logs,               \* every addLog call, in order
  calls,              \* every generateHologramCode call, in order, with its outcome
  generatedCode,      \* useState 'generatedCode'
  isAssistanceActive, \* useState 'isAssistanceActive'
  pythonAssistant,    \* the service: enabled flag and registered callback
  expOp               \* the last Experience step

expVars == <<mounted, voiceState, transcript, addLogId, prevTranscriptRef, logs,
             calls, generatedCode, isAssistanceActive, pythonAssistant, expOp>>

\* MoodService
VARIABLES
  moodIn,       \* what the browser and the model do during the current analyzeMood call
  moodPromise   \* the promise returned by the current analyzeMood call

moodVars == <<moodIn, moodPromise>>

vars == <<appVars, expVars, moodVars>>


\* the type of 'environment' and of handleEnvironmentChange's parameter
Environments == {"cyber", "nature", "desert", "rainforest", "iceland"}

\* faulty variant: the last but one step of the cycle is misspelt
NextEnvironmentTypo(prev) ==
  IF prev = "cyber" THEN "nature"
  ELSE IF prev = "nature" THEN "desert"
  ELSE IF prev = "desert" THEN "rainforrest"
  ELSE IF prev = "rainforest" THEN "iceland"
  ELSE "cyber"

\* faulty variant: 'rainforest' falls through to the default
NextEnvironmentSkip(prev) ==
  IF prev = "cyber" THEN "nature"
  ELSE IF prev = "nature" THEN "desert"
  ELSE IF prev = "desert" THEN "rainforest"
  ELSE "cyber"

\* the updater passed to setEnvironment by toggleEnvironment
NextEnvironment(prev) ==
  IF prev = "cyber" THEN "nature"
  ELSE IF prev = "nature" THEN "desert"
  ELSE IF prev = "desert" THEN "rainforest"
  ELSE IF prev = "rainforest" THEN "iceland"
  ELSE "cyber"

\* the values a render closes over
Closure == [environment |-> environment, isTransitioning |-> isTransitioning]

\* a pending timer: the operation that scheduled it, its phase, the
\* environment requested (handleEnvironmentChange only) and whether the call
\* was made while the committed state had isTransitioning false
Timer(op, phase, newEnv, idle) ==
  [op |-> op, phase |-> phase, newEnv |-> newEnv, idle |-> idle]

AppInit ==
  /\ environment = "cyber"
  /\ isTransitioning = FALSE
  /\ timers = <<>>
  /\ held = [environment |-> "cyber", isTransitioning |-> FALSE]
  /\ lastOp = "mount"

\* the button's onClick: toggleEnvironment of the current render
toggleEnvironment ==
  /\ isTransitioning \/ Len(timers) < MaxTimers
  /\ IF isTransitioning
     THEN /\ lastOp' = "toggleRejected"
          /\ UNCHANGED <<isTransitioning, timers>>
     ELSE /\ isTransitioning' = TRUE
          /\ timers' = Append(timers, Timer("toggle", "fadeOut", "none", TRUE))
          /\ lastOp' = "toggleAccepted"
  /\ UNCHANGED <<environment, held>>
  /\ UNCHANGED <<expVars, moodVars>>

\* the body of handleEnvironmentChange as closed over the render c
ChangeBody(c, newEnv) ==
  /\ c.isTransitioning \/ c.environment = newEnv \/ Len(timers) < MaxTimers
  /\ IF c.isTransitioning \/ c.environment = newEnv
     THEN /\ lastOp' = "changeRejected"
          /\ UNCHANGED <<isTransitioning, timers>>
     ELSE /\ isTransitioning' = TRUE
          /\ timers' = Append(timers,
                 Timer("change", "fadeOut", newEnv,
                       ~isTransitioning /\ environment # newEnv))
          /\ lastOp' = "changeAccepted"
  /\ UNCHANGED <<environment, held>>
  /\ UNCHANGED <<expVars, moodVars>>

\* setEnvironment prop called by a holder of the current render's function
handleEnvironmentChange ==
  \E newEnv \in Environments : ChangeBody(Closure, newEnv)

\* an asynchronous holder takes the setEnvironment prop of the current render
holdSetEnvironment ==
  /\ held # Closure
  /\ held' = Closure
  /\ lastOp' = "hold"
  /\ UNCHANGED <<environment, isTransitioning, timers>>
  /\ UNCHANGED <<expVars, moodVars>>

\* ... and calls it later, after any number of renders
heldHandleEnvironmentChange ==
  /\ held # Closure
  /\ \E newEnv \in Environments : ChangeBody(held, newEnv)

\* the outer timeout of toggleEnvironment fires
toggleFadeOutFires ==
  /\ timers # <<>>
  /\ Head(timers).op = "toggle" /\ Head(timers).phase = "fadeOut"
  /\ environment' = NextEnvironment(environment)
  /\ timers' = Append(Tail(timers), Timer("toggle", "fadeIn", "none", TRUE))
  /\ lastOp' = "toggleFadeOut"
  /\ UNCHANGED <<isTransitioning, held>>
  /\ UNCHANGED <<expVars, moodVars>>

\* faulty variant: the inner timeout does not reset isTransitioning
toggleFadeInFiresNoReset ==
  /\ timers # <<>>
  /\ Head(timers).op = "toggle" /\ Head(timers).phase = "fadeIn"
  /\ timers' = Tail(timers)
  /\ lastOp' = "toggleFadeIn"
  /\ UNCHANGED <<environment, isTransitioning, held>>
  /\ UNCHANGED <<expVars, moodVars>>

\* the inner timeout of toggleEnvironment fires
toggleFadeInFires ==
  /\ timers # <<>>
  /\ Head(timers).op = "toggle" /\ Head(timers).phase = "fadeIn"
  /\ isTransitioning' = FALSE
  /\ timers' = Tail(timers)
  /\ lastOp' = "toggleFadeIn"
  /\ UNCHANGED <<environment, held>>
  /\ UNCHANGED <<expVars, moodVars>>

\* the outer timeout of handleEnvironmentChange fires
changeFadeOutFires ==
  /\ timers # <<>>
  /\ Head(timers).op = "change" /\ Head(timers).phase = "fadeOut"
  /\ environment' = Head(timers).newEnv
  /\ timers' = Append(Tail(timers),
         Timer("change", "fadeIn", Head(timers).newEnv, Head(timers).idle))
  /\ lastOp' = "changeFadeOut"
  /\ UNCHANGED <<isTransitioning, held>>
  /\ UNCHANGED <<expVars, moodVars>>

\* the inner timeout of handleEnvironmentChange fires
changeFadeInFires ==
  /\ timers # <<>>
  /\ Head(timers).op = "change" /\ Head(timers).phase = "fadeIn"
  /\ isTransitioning' = FALSE
  /\ timers' = Tail(timers)
  /\ lastOp' = "changeFadeIn"
  /\ UNCHANGED <<environment, held>>
  /\ UNCHANGED <<expVars, moodVars>>

\* the browser runs the timer callback that is due
TimerFires ==
  \/ toggleFadeOutFires
  \/ toggleFadeInFires
  \/ changeFadeOutFires
  \/ changeFadeInFires

AppNext ==
  \/ toggleEnvironment
  \/ handleEnvironmentChange
  \/ holdSetEnvironment
  \/ heldHandleEnvironmentChange
  \/ toggleFadeOutFires
  \/ toggleFadeInFires
  \/ changeFadeOutFires
  \/ changeFadeInFires


(* ----------------------------- Experience ------------------------------ *)
\* most voice commands processed
MaxCommands == 2
\* most identities the addLog prop takes after the first
MaxAddLogId == 1

\* strings are sequences of one-character strings
Sp == <<" ">>
Wshow == <<"s", "h", "o", "w">>
Wgenerate == <<"g", "e", "n", "e", "r", "a", "t", "e">>
Wcreate == <<"c", "r", "e", "a", "t", "e">>
Wme == <<"m", "e">>
Wa == <<"a">>
Wart == <<"a", "r", "t">>
Wearth == <<"e", "a", "r", "t", "h">>
Wheart == <<"h", "e", "a", "r", "t">>
Wtorus == <<"t", "o", "r", "u", "s">>
Wspear == <<"s", "p", "e", "a", "r">>
Wbox == <<"b", "o", "x">>
Whello == <<"h", "e", "l", "l", "o">>

LowerLetters == <<"a", "b", "c", "d", "e", "f", "g", "h", "i", "j", "k", "l", "m",
                  "n", "o", "p", "q", "r", "s", "t", "u", "v", "w", "x", "y", "z">>
UpperLetters == <<"A", "B", "C", "D", "E", "F", "G", "H", "I", "J", "K", "L", "M",
                  "N", "O", "P", "Q", "R", "S", "T", "U", "V", "W", "X", "Y", "Z">>

\* String.prototype.toLowerCase on the letters A-Z
LowerChar(c) ==
  IF \E i \in DOMAIN UpperLetters : UpperLetters[i] = c
  THEN LowerLetters[CHOOSE i \in DOMAIN UpperLetters : UpperLetters[i] = c]
  ELSE c

ToLowerCase(s) == [i \in DOMAIN s |-> LowerChar(s[i])]

\* String.prototype.startsWith
StartsWith(s, p) == Len(s) >= Len(p) /\ SubSeq(s, 1, Len(p)) = p

\* String.prototype.includes
Includes(s, p) ==
  \E i \in 1..(Len(s) + 1) : i + Len(p) - 1 <= Len(s) /\ SubSeq(s, i, i + Len(p) - 1) = p

\* the rest of s after a maximal run of leading white space (\s*)
RECURSIVE SkipSpaces(_)
SkipSpaces(s) == IF s # <<>> /\ Head(s) = " " THEN SkipSpaces(Tail(s)) ELSE s

\* String.prototype.trim
RECURSIVE TrimEnd(_)
TrimEnd(s) == IF s # <<>> /\ s[Len(s)] = " " THEN TrimEnd(SubSeq(s, 1, Len(s) - 1)) ELSE s

Trim(s) == TrimEnd(SkipSpaces(s))

\* s after word w followed by \s+, when s begins so; otherwise s
AfterWord(s, w) ==
  IF StartsWith(s, w \o Sp) THEN SkipSpaces(SubSeq(s, Len(w) + 1, Len(s))) ELSE s

Keywords == {Wshow, Wgenerate, Wcreate}

\* lowerTranscript.replace(/^(show|generate|create)\s+(me\s+)?(a\s+)?/, "")
StripCommand(s) ==
  IF \E k \in Keywords : StartsWith(s, k \o Sp)
  THEN LET k == CHOOSE k \in Keywords : StartsWith(s, k \o Sp)
       IN AfterWord(AfterWord(SkipSpaces(SubSeq(s, Len(k) + 1, Len(s))), Wme), Wa)
  ELSE s

\* the phonetic corrections table
Corrections ==
  { <<(<<"t", "h", "e">> \o Sp \o Wart), Wearth>>,
    <<Wart, Wearth>>,
    <<(<<"b", "i", "r", "t", "h">>), Wearth>>,
    <<(<<"g", "i", "r", "t", "h">>), Wearth>>,
    <<(<<"h", "u", "r", "t">>), Wheart>>,
    <<(<<"p", "a", "r", "t">>), Wheart>>,
    <<(<<"b", "o", "x", "s">>), Wbox>>,
    <<Wspear, <<"s", "p", "h", "e", "r", "e">> >>,
    <<(<<"t", "o", "u", "r", "i", "s", "t">>), Wtorus>>,
    <<(<<"t", "a", "u", "r", "u", "s">>), Wtorus>>,
    <<(<<"c", "o", "r", "n">>), <<"c", "o", "n", "e">> >>,
    <<(<<"n", "o", "t">>), <<"k", "n", "o", "t">> >> }

\* the object name handed to generateHologramCode for a lower-cased transcript
ObjectName(lowerTranscript) ==
  LET objectName == Trim(StripCommand(lowerTranscript))
  IN IF \E c \in Corrections : c[1] = objectName
     THEN (CHOOSE c \in Corrections : c[1] = objectName)[2]
     ELSE objectName

\* faulty variant: the keyword is looked for anywhere in the transcript
IsGenerationCommandIncludes(lowerTranscript) ==
  \E k \in Keywords : Includes(lowerTranscript, k)

\* the test that intercepts a voice command for 3D generation
IsGenerationCommand(lowerTranscript) ==
  \/ StartsWith(lowerTranscript, Wshow)
  \/ StartsWith(lowerTranscript, Wgenerate)
  \/ StartsWith(lowerTranscript, Wcreate)

\* the values useVoiceInteraction hands to Experience
VoiceStates == {"idle", "thinking", "speaking"}

Transcripts ==
  { <<>>,
    <<"S">> \o Tail(Wshow) \o Sp \o Wme \o Sp \o Wa \o Sp \o Wspear,
    Wgenerate \o Sp \o Wbox,
    <<"C", "R", "E", "A", "T", "E">> \o Sp \o Wart,
    Wshow \o <<"c", "a", "s", "e">>,
    Whello \o Sp \o Wshow \o Sp \o Wbox }

\* one addLog call
LogEntry(type, characterId, kind, text) ==
  [type |-> type, characterId |-> characterId, kind |-> kind, text |-> text]

\* the voice commands logged so far
NumCommands == Cardinality({i \in DOMAIN logs : logs[i].type = "dialogue"})

\* faulty variant: the voice state is not looked at
IsVoiceActiveAlways(vs) == vs \in {"idle", "thinking", "speaking"}

\* command processing is allowed during 'thinking' or 'speaking'
IsVoiceActive(vs) == vs = "thinking" \/ vs = "speaking"

\* faulty variant: every run of the effect in an active voice state is processed
ShouldProcessNoRef(vs, t, prev) == IsVoiceActive(vs) /\ t # <<>>

\* the guard of the voice-command effect
ShouldProcess(vs, t, prev) == IsVoiceActive(vs) /\ t # <<>> /\ t # prev

\* the voice-command effect, run after a render with voice state vs and
\* transcript t
VoiceEffect(vs, t) ==
  IF ShouldProcess(vs, t, prevTranscriptRef)
  THEN /\ logs' = Append(logs, LogEntry("dialogue", "Atlas", "Voice Command", t))
       /\ prevTranscriptRef' = t
       /\ IF IsGenerationCommand(ToLowerCase(t))
          THEN calls' = Append(calls, [objectName |-> ObjectName(ToLowerCase(t)),
                                       transcript |-> t,
                                       command |-> Len(logs) + 1,
                                       status |-> "pending"])
          ELSE calls' = calls
  ELSE UNCHANGED <<logs, prevTranscriptRef, calls>>

\* onAnalysisResult is memoised on addLog
OnAnalysisResult(id) == <<"onAnalysisResult", id>>

\* no callback registered with pythonAssistant
NoCallback == <<"none", 0>>

\* faulty variant: the effect enables the assistant and never disables it
SyncEffectEnableOnly(active, callback) ==
  pythonAssistant' = IF active
                     THEN [enabled |-> TRUE, callback |-> callback]
                     ELSE pythonAssistant

\* the assistance sync effect: the cleanup of the previous run, then the body
SyncEffect(active, callback) ==
  pythonAssistant' = IF active
                     THEN [enabled |-> TRUE, callback |-> callback]
                     ELSE [enabled |-> FALSE, callback |-> NoCallback]

ExpInit ==
  /\ mounted = TRUE
  /\ voiceState = "idle"
  /\ transcript = <<>>
  /\ addLogId = 0
  /\ prevTranscriptRef = <<>>
  /\ logs = <<>>
  /\ calls = <<>>
  /\ generatedCode = "null"
  /\ isAssistanceActive = FALSE
  /\ pythonAssistant = [enabled |-> FALSE, callback |-> NoCallback]
  /\ expOp = "mount"

\* useVoiceInteraction changes its state and/or transcript: render, then the
\* voice-command effect
voiceChanges ==
  /\ mounted
  /\ NumCommands < MaxCommands
  /\ \E vs \in VoiceStates, t \in Transcripts :
       /\ <<vs, t>> # <<voiceState, transcript>>
       /\ voiceState' = vs
       /\ transcript' = t
       /\ VoiceEffect(vs, t)
       /\ expOp' = IF t = transcript /\ IsVoiceActive(voiceState) /\ IsVoiceActive(vs)
                   THEN "voiceFlips" ELSE "voiceChanges"
  /\ UNCHANGED <<mounted, addLogId, generatedCode, isAssistanceActive, pythonAssistant>>
  /\ UNCHANGED <<appVars, moodVars>>

\* the parent hands down a new addLog: both effects depend on it
addLogChanges ==
  /\ mounted
  /\ addLogId < MaxAddLogId
  /\ addLogId' = addLogId + 1
  /\ VoiceEffect(voiceState, transcript)
  /\ SyncEffect(isAssistanceActive, OnAnalysisResult(addLogId + 1))
  /\ expOp' = "addLogChanges"
  /\ UNCHANGED <<mounted, voiceState, transcript, generatedCode, isAssistanceActive>>
  /\ UNCHANGED <<appVars, moodVars>>

\* faulty variant: the handler shows the code of the newest call
OnGenerateResolvedNewest(i) ==
  /\ calls' = [calls EXCEPT ![i].status = "resolved"]
  /\ generatedCode' = IF mounted THEN <<"code", calls[Len(calls)].objectName>>
                                  ELSE generatedCode
  /\ logs' = Append(logs, LogEntry("action", "Luna", "Initializing Holographic Protocol",
                                   calls[i].objectName))

\* the .then handler of generateHologramCode
OnGenerateResolved(i) ==
  /\ calls' = [calls EXCEPT ![i].status = "resolved"]
  /\ generatedCode' = IF mounted THEN <<"code", calls[i].objectName>> ELSE generatedCode
  /\ logs' = Append(logs, LogEntry("action", "Luna", "Initializing Holographic Protocol",
                                   calls[i].objectName))

\* faulty variant: the .catch handler issues the call again
OnGenerateFailedRetry(i) ==
  /\ calls' = Append([calls EXCEPT ![i].status = "rejected"],
                     [calls[i] EXCEPT !.status = "pending"])
  /\ UNCHANGED <<generatedCode, logs>>

\* the .catch handler of generateHologramCode
OnGenerateFailed(i) ==
  /\ calls' = [calls EXCEPT ![i].status = "rejected"]
  /\ UNCHANGED <<generatedCode, logs>>

\* an outstanding generateHologramCode promise resolves
generateResolves ==
  /\ \E i \in DOMAIN calls : calls[i].status = "pending" /\ OnGenerateResolved(i)
  /\ expOp' = "generateResolves"
  /\ UNCHANGED <<mounted, voiceState, transcript, addLogId, prevTranscriptRef,
                 isAssistanceActive, pythonAssistant>>
  /\ UNCHANGED <<appVars, moodVars>>

\* an outstanding generateHologramCode promise rejects
generateRejects ==
  /\ Len(calls) <= MaxCommands
  /\ \E i \in DOMAIN calls : calls[i].status = "pending" /\ OnGenerateFailed(i)
  /\ expOp' = "generateRejects"
  /\ UNCHANGED <<mounted, voiceState, transcript, addLogId, prevTranscriptRef,
                 isAssistanceActive, pythonAssistant>>
  /\ UNCHANGED <<appVars, moodVars>>

\* the user action: toggleAssistance of the current render, then the sync effect
toggleAssistance ==
  /\ mounted
  /\ LET newState == ~isAssistanceActive
     IN /\ isAssistanceActive' = newState
        /\ SyncEffect(newState, OnAnalysisResult(addLogId))
  /\ expOp' = "toggleAssistance"
  /\ UNCHANGED <<mounted, voiceState, transcript, addLogId, prevTranscriptRef, logs,
                 calls, generatedCode>>
  /\ UNCHANGED <<appVars, moodVars>>

\* Experience unmounts: the cleanup of the sync effect
unmount ==
  /\ mounted
  /\ mounted' = FALSE
  /\ pythonAssistant' = [enabled |-> FALSE, callback |-> NoCallback]
  /\ expOp' = "unmount"
  /\ UNCHANGED <<voiceState, transcript, addLogId, prevTranscriptRef, logs, calls,
                 generatedCode, isAssistanceActive>>
  /\ UNCHANGED <<appVars, moodVars>>

ExpNext ==
  \/ voiceChanges
  \/ addLogChanges
  \/ generateResolves
  \/ generateRejects
  \/ toggleAssistance
  \/ unmount

(* ----------------------- what Experience renders ----------------------- *)
Rooms == {"CyberRoom", "NatureRoom", "DesertRoom", "RainforestRoom", "IcelandRoom"}

\* faulty variant: the 'desert' branch is missing from the chain
RoomElementNoDesert(env) ==
  IF env = "cyber" THEN "CyberRoom"
  ELSE IF env = "nature" THEN "NatureRoom"
  ELSE IF env = "rainforest" THEN "RainforestRoom"
  ELSE "IcelandRoom"

\* the ROOM ENVIRONMENT conditional chain
RoomElement(env) ==
  IF env = "cyber" THEN "CyberRoom"
  ELSE IF env = "nature" THEN "NatureRoom"
  ELSE IF env = "desert" THEN "DesertRoom"
  ELSE IF env = "rainforest" THEN "RainforestRoom"
  ELSE "IcelandRoom"

\* the components in the fragment Experience returns for an environment
Rendered(env) ==
  {"color", "PerspectiveCamera", "OrbitControls", "Avatar3D", "HoloScreen"}
    \cup (IF env = "cyber" THEN {"ambientLight", "pointLight", "RealisticSky"} ELSE {})
    \cup {RoomElement(env)}

(* ----------------------------- MoodService ----------------------------- *)
\* longest model reply, in tokens
MaxTextLen == 4

\* a reply of the model is a sequence of tokens: the code fence (three backticks), the word
\* json, a line break, a JSON object whose suggestedEnvironment is 'nature',
\* one whose suggestedEnvironment is 'NATURE', the JSON literal null, and
\* prose that is not JSON
Fence == "FENCE"
Tokens == {Fence, "json", "NL", "OBJ_nature", "OBJ_NATURE", "null", "prose"}

RECURSIVE SeqsUpTo(_, _)
SeqsUpTo(S, n) ==
  IF n = 0 THEN {<<>>}
  ELSE LET shorter == SeqsUpTo(S, n - 1)
       IN shorter \cup {Append(q, x) : q \in {r \in shorter : Len(r) = n - 1}, x \in S}

Texts == SeqsUpTo(Tokens, MaxTextLen)

\* text.replace(/```json\n?|\n?```/g, "")
RECURSIVE StripFences(_)
StripFences(t) ==
  IF t = <<>> THEN <<>>
  ELSE IF Len(t) >= 2 /\ t[1] = Fence /\ t[2] = "json"
       THEN IF Len(t) >= 3 /\ t[3] = "NL"
            THEN StripFences(SubSeq(t, 4, Len(t)))
            ELSE StripFences(SubSeq(t, 3, Len(t)))
  ELSE IF Len(t) >= 2 /\ t[1] = "NL" /\ t[2] = Fence
       THEN StripFences(SubSeq(t, 3, Len(t)))
  ELSE IF t[1] = Fence
       THEN StripFences(Tail(t))
  ELSE <<t[1]>> \o StripFences(Tail(t))

\* String.prototype.trim on a token sequence
RECURSIVE TrimTokensStart(_)
TrimTokensStart(t) == IF t # <<>> /\ Head(t) = "NL" THEN TrimTokensStart(Tail(t)) ELSE t

RECURSIVE TrimTokensEnd(_)
TrimTokensEnd(t) ==
  IF t # <<>> /\ t[Len(t)] = "NL" THEN TrimTokensEnd(SubSeq(t, 1, Len(t) - 1)) ELSE t

CleanText(text) == TrimTokensEnd(TrimTokensStart(StripFences(text)))

\* a value analyzeMood can resolve to
MoodValue(kind, env) == [kind |-> kind, suggestedEnvironment |-> env]

NullValue == MoodValue("null", "none")

\* JSON.parse: one JSON value, white space allowed around it
JsonParses(t) ==
  LET v == TrimTokensEnd(TrimTokensStart(t))
  IN Len(v) = 1 /\ v[1] \in {"OBJ_nature", "OBJ_NATURE", "null"}

JsonParse(t) ==
  LET v == TrimTokensEnd(TrimTokensStart(t))
  IN IF v[1] = "OBJ_nature" THEN MoodValue("object", "nature")
     ELSE IF v[1] = "OBJ_NATURE" THEN MoodValue("object", "NATURE")
     ELSE NullValue

Settled(state, value) == [state |-> state, value |-> value]

\* faulty variant: a reply that does not parse escapes the try block
AfterModelParseOutside(in) ==
  IF in.model = "rejects" \/ in.model = "textThrows"
  THEN Settled("fulfilled", NullValue)
  ELSE IF JsonParses(CleanText(in.text))
       THEN Settled("fulfilled", JsonParse(CleanText(in.text)))
       ELSE Settled("rejected", NullValue)

\* analyzeMood after the await of generateContent: the reply is cleaned and
\* parsed, and every exception ends in the catch block
AfterModel(in) ==
  IF in.model = "rejects" \/ in.model = "textThrows"
  THEN Settled("fulfilled", NullValue)
  ELSE IF JsonParses(CleanText(in.text))
       THEN Settled("fulfilled", JsonParse(CleanText(in.text)))
       ELSE Settled("fulfilled", NullValue)

MoodInit ==
  /\ moodIn = [ctx |-> TRUE, capture |-> "ok", model |-> "none", text |-> <<>>]
  /\ moodPromise = Settled("none", NullValue)

\* analyzeMood is called: the frame is captured up to the await
analyzeMood ==
  /\ moodPromise.state # "pending"
  /\ \E ctx \in BOOLEAN, capture \in {"ok", "throws"} :
       /\ moodIn' = [ctx |-> ctx, capture |-> capture, model |-> "none", text |-> <<>>]
       /\ moodPromise' = IF ~ctx \/ capture = "throws"
                         THEN Settled("fulfilled", NullValue)
                         ELSE Settled("pending", NullValue)
  /\ UNCHANGED <<appVars, expVars>>

\* generateContent resolves and the rest of analyzeMood runs
modelResolves ==
  /\ moodPromise.state = "pending"
  /\ \E text \in Texts, m \in {"text", "textThrows"} :
       /\ m = "textThrows" => text = <<>>
       /\ moodIn' = [moodIn EXCEPT !.model = m, !.text = text]
       /\ moodPromise' = AfterModel(moodIn')
  /\ UNCHANGED <<appVars, expVars>>

\* generateContent rejects and the catch block runs
modelRejects ==
  /\ moodPromise.state = "pending"
  /\ moodIn' = [moodIn EXCEPT !.model = "rejects"]
  /\ moodPromise' = AfterModel(moodIn')
  /\ UNCHANGED <<appVars, expVars>>

MoodNext ==
  \/ analyzeMood
  \/ modelResolves
  \/ modelRejects

(* --------------------------- specifications ---------------------------- *)
Init == AppInit /\ ExpInit /\ MoodInit

Next == AppNext

\* AppContent: the environment transitions
Spec == Init /\ [][Next]_vars

\* AppContent with timers that fire once they are due
SpecTimers == Init /\ [][Next]_vars /\ WF_vars(TimerFires)

NextExperience == ExpNext

\* Experience: voice commands and assistance mode
SpecExperience == Init /\ [][NextExperience]_vars

NextMood == MoodNext

\* MoodService: one analyzeMood call after another
SpecMood == Init /\ [][NextMood]_vars

(* ------------------------------ claims --------------------------------- *)

\* C1: AppContent starts with environment 'cyber' and isTransitioning false,
\* and after any sequence of toggleEnvironment calls, handleEnvironmentChange
\* calls and timer firings environment is one of the five rooms.
C1_EnvironmentInType ==
  /\ environment = "cyber" /\ isTransitioning = FALSE
  /\ [](environment \in Environments)

C1_Witness ==
  environment = "iceland" /\ ~isTransitioning /\ lastOp = "changeFadeIn"

\* the fixed cycle, as the claim lists it
CycleOrder == <<"cyber", "nature", "desert", "rainforest", "iceland">>

CycleSucc(e) ==
  LET i == CHOOSE k \in DOMAIN CycleOrder : CycleOrder[k] = e
  IN CycleOrder[(i % Len(CycleOrder)) + 1]

\* the environment after n completed toggles that start at e
RECURSIVE AfterToggles(_, _)
AfterToggles(n, e) == IF n = 0 THEN e ELSE NextEnvironment(AfterToggles(n - 1, e))

\* C2: the timer of an accepted toggleEnvironment advances environment by
\* exactly one step of the cycle cyber -> nature -> desert -> rainforest ->
\* iceland -> cyber; from the environment reached, five completed toggles
\* return to it and fewer than five do not.
C2_ToggleCycle ==
  /\ [][toggleFadeOutFires => environment' = CycleSucc(environment)]_vars
  /\ [](AfterToggles(Len(CycleOrder), environment) = environment)
  /\ [](\A n \in 1..(Len(CycleOrder) - 1) : AfterToggles(n, environment) # environment)

C2_Witness ==
  /\ lastOp = "toggleFadeIn" /\ ~isTransitioning /\ timers = <<>>
  /\ environment = "cyber"

\* C3: when handleEnvironmentChange(newEnv) is called with isTransitioning
\* false and newEnv different from the current environment, then at the
\* firing of its second timer environment equals newEnv and isTransitioning
\* is false.
C3_ChangeCompletes ==
  [][(changeFadeInFires /\ Head(timers).idle)
       => (environment' = Head(timers).newEnv /\ isTransitioning' = FALSE)]_vars

\* the room that matches each environment, as the claim lists it
MatchingRoom ==
  [cyber |-> "CyberRoom", nature |-> "NatureRoom", desert |-> "DesertRoom",
   rainforest |-> "RainforestRoom", iceland |-> "IcelandRoom"]

\* C4: for every value of environment Experience renders exactly one room
\* component, the one matching the environment.
C4_OneMatchingRoom ==
  Rendered(environment) \cap Rooms = {MatchingRoom[environment]}

C4_Witness ==
  /\ environment = "desert" /\ lastOp = "toggleFadeOut"
  /\ Rendered(environment) \cap Rooms = {"DesertRoom"}

\* the 'Voice Command' entries of the log
VoiceCommandLogs == SelectSeq(logs, LAMBDA e : e.kind = "Voice Command")

\* the lower-cased transcript begins with 'show', 'generate' or 'create'
BeginsWithKeyword(t) ==
  \E k \in {Wshow, Wgenerate, Wcreate} : StartsWith(ToLowerCase(t), k)

\* C5: a step starts a hologram generation if and only if it processes a
\* voice command whose lower-cased transcript begins with 'show', 'generate'
\* or 'create'; every other processed transcript is only logged.
C5_GenerationIffKeyword ==
  [][(Len(calls') > Len(calls))
       <=> (/\ Len(VoiceCommandLogs') > Len(VoiceCommandLogs)
            /\ BeginsWithKeyword(transcript'))]_vars

C5_Witness ==
  /\ Len(VoiceCommandLogs) = 2 /\ Len(calls) = 1
  /\ \E i \in DOMAIN logs :
       logs[i].kind = "Voice Command" /\ ~BeginsWithKeyword(logs[i].text)

\* C6: there is no retry: no two generateHologramCode calls belong to the
\* same processed voice command, and the failure of a call issues no call.
C6_NoRetry ==
  /\ [](\A i, j \in DOMAIN calls : calls[i].command = calls[j].command => i = j)
  /\ [][generateRejects => Len(calls') = Len(calls)]_vars

C6_Witness ==
  /\ expOp = "voiceFlips"
  /\ \E i \in DOMAIN calls : calls[i].status = "rejected" /\ calls[i].transcript = transcript

C8_SuggestedEnvironmentInType ==
  (moodPromise.state = "fulfilled" /\ moodPromise.value.kind # "null")
    => moodPromise.value.suggestedEnvironment \in Environments

\* C9: once the sync effect has run, pythonAssistant is enabled, with the
\* current onAnalysisResult, if and only if isAssistanceActive; after the
\* unmount it is disabled.
C9_AssistantInSync ==
  /\ mounted => /\ pythonAssistant.enabled <=> isAssistanceActive
                /\ pythonAssistant.enabled
                     => pythonAssistant.callback = OnAnalysisResult(addLogId)
  /\ ~mounted => ~pythonAssistant.enabled

C9_Witness ==
  /\ mounted /\ expOp = "addLogChanges" /\ addLogId > 0
  /\ isAssistanceActive /\ pythonAssistant.enabled

\* the number of entries at the end of q that carry the text t
RECURSIVE TrailingRun(_, _)
TrailingRun(q, t) ==
  IF q # <<>> /\ q[Len(q)].text = t
  THEN 1 + TrailingRun(SubSeq(q, 1, Len(q) - 1), t)
  ELSE 0

\* the calls made for the voice command logged last
CallsOfLastCommand ==
  {i \in DOMAIN calls :
     /\ logs[calls[i].command].kind = "Voice Command"
     /\ \A j \in DOMAIN logs :
          j > calls[i].command => logs[j].kind # "Voice Command"}

\* C10: while transcript stays the same, changes of voiceState among
\* 'thinking' and 'speaking' log nothing and start no generation: the
\* transcript is in the log exactly once and has at most one
\* generateHologramCode call.
C10_NoDuplicateLog ==
  /\ [][(/\ transcript' = transcript
         /\ IsVoiceActive(voiceState) /\ IsVoiceActive(voiceState'))
          => (VoiceCommandLogs' = VoiceCommandLogs /\ Len(calls') = Len(calls))]_vars
  /\ []((mounted /\ IsVoiceActive(voiceState) /\ transcript # <<>>)
          => (/\ TrailingRun(VoiceCommandLogs, transcript) = 1
              /\ Cardinality(CallsOfLastCommand) <= 1))

C10_Witness ==
  /\ expOp = "voiceFlips" /\ voiceState = "thinking"
  /\ Len(VoiceCommandLogs) = 1 /\ Len(calls) = 1
  /\ VoiceCommandLogs[1].text = transcript

\* the state a rejected request must leave alone
TransitionState == <<environment, isTransitioning, timers>>

\* C11: a rejected environment request changes nothing: toggleEnvironment
\* called while isTransitioning is true, and handleEnvironmentChange called
\* while isTransitioning is true or with newEnv equal to the current
\* environment, leave environment and isTransitioning unchanged and schedule
\* no timer.
C11_RejectedChangesNothing ==
  [][/\ (toggleEnvironment /\ isTransitioning) => UNCHANGED TransitionState
     /\ \A e \in Environments :
          (/\ ChangeBody(Closure, e) \/ ChangeBody(held, e)
           /\ isTransitioning \/ environment = e)
            => UNCHANGED TransitionState]_vars

\* C12: in every step in which environment changes value isTransitioning is
\* true before and after the step, and isTransitioning returns to false only
\* in the second timer of a transition, after its environment change.
C12_ChangeWhileBlackedOut ==
  /\ [][environment' # environment => (isTransitioning /\ isTransitioning')]_vars
  /\ [][(isTransitioning /\ ~isTransitioning')
          => (timers # <<>> /\ Head(timers).phase = "fadeIn")]_vars

\* C13: whenever isTransitioning is true, under fair firing of the timers it
\* eventually is false again.
C13_TransitionTerminates == isTransitioning ~> ~isTransitioning

C13_Witness ==
  /\ lastOp = "toggleFadeIn" /\ ~isTransitioning /\ timers = <<>>
  /\ environment = "nature"

\* C14: no fade-out timer is scheduled, by any caller, before the previous
\* transition has set isTransitioning back to false.
C14_OneTransitionInFlight ==
  [][Len(timers') > Len(timers) => ~isTransitioning]_vars

\* the voice states in which the claim allows processing
ProcessingStates == {"thinking", "speaking"}

\* C15: a run of the voice-command effect in a voiceState other than
\* 'thinking' or 'speaking', or with an empty transcript, adds no log entry,
\* starts no hologram generation and leaves prevTranscriptRef unchanged.
C15_OnlyWhileActive ==
  [][(/\ voiceChanges \/ addLogChanges
      /\ voiceState' \notin ProcessingStates \/ transcript' = <<>>)
       => (/\ logs' = logs
           /\ calls' = calls
           /\ prevTranscriptRef' = prevTranscriptRef)]_vars

C15_Witness ==
  /\ expOp = "voiceChanges" /\ voiceState = "idle"
  /\ transcript # <<>> /\ prevTranscriptRef # transcript
  /\ Len(logs) = 1 /\ Len(calls) = 1

\* C16: each utterance that reaches voiceState 'thinking' or 'speaking' with
\* a non-empty transcript adds a 'Voice Command' dialogue entry of 'Atlas'
\* that carries the transcript.
C16_EveryUtteranceLogged ==
  [][(/\ voiceChanges
      /\ voiceState \notin ProcessingStates
      /\ voiceState' \in ProcessingStates
      /\ transcript' # <<>>)
       => (/\ Len(logs') = Len(logs) + 1
           /\ logs'[Len(logs')] =
                LogEntry("dialogue", "Atlas", "Voice Command", transcript'))]_vars

\* every generateHologramCode call has resolved, and there were several
AllResolved ==
  /\ Len(calls) >= 2
  /\ \A i \in DOMAIN calls : calls[i].status = "resolved"

\* C17 as stated: after several requests have all resolved, in any order,
\* generatedCode holds the code generated for the most recently spoken
\* command.
C17_NewestCommandWins ==
  (mounted /\ AllResolved) => generatedCode = <<"code", calls[Len(calls)].objectName>>

\* C17 as amended: generatedCode is set by each resolving request to its own
\* code and by nothing else, so after all requests have resolved it holds the
\* code of the request that resolved last.
C17_LastResolvedWins ==
  /\ [][\A i \in DOMAIN calls :
          (mounted /\ calls[i].status = "pending" /\ calls'[i].status = "resolved")
            => generatedCode' = <<"code", calls[i].objectName>>]_vars
  /\ [][~generateResolves => UNCHANGED generatedCode]_vars

C17_Witness ==
  /\ mounted /\ AllResolved /\ expOp = "generateResolves"
  /\ calls[1].objectName # calls[2].objectName
  /\ generatedCode = <<"code", calls[1].objectName>>

====
